---- MODULE Spec2Model ----
(***************************************************************************)
(* Robin Hood hash table of ludaludaed/robin_hood (src/robin_hood.h):      *)
(* ld::detail::hash_table over ld::detail::array<node>, with the two       *)
(* growth policies.  Slot indices are 0-based as in the source; the buffer *)
(* is a TLA+ sequence, so slot i of buffer d is d[i + 1].                  *)
(***************************************************************************)
EXTENDS Integers, Sequences, FiniteSets, TLC

\* ------------------------------------------------------------------ bounds
\* width of size_t in the model (the source has 64); arithmetic on size_type
\* is taken modulo 2^SizeBits
SizeBits == 5
\* keys are 1..NumKeys
NumKeys == 3
\* capacities the constructor hash_table(size_type capacity) is called with
MaxInitCap == 2
\* targets passed to reserve / rehash: 0..MaxTarget and the largest size_t
MaxTarget == 4
\* value constructions that throw in one run
MaxFaults == 1
\* keys the runs with two tables, or with failing constructions only, use:
\* 1..NumKeysTwo
NumKeysTwo == 2
\* steps of a rehash that can be the failing one: 0 .. MaxFailPoint
MaxFailPoint == 3
\* sizes a buffer is resized to on its own: 0 .. MaxArraySize
MaxArraySize == 3

SizeMod == 2 ^ SizeBits
\* load_factor_ is a float; the model holds it in halves (lf / LfDen), which
\* float arithmetic represents exactly
LfDen == 2
\* significant bits of a float in the model (the source's float has 24 of
\* them beside a 64-bit size_t)
FloatBits == 2
Keys == 1 .. NumKeys
KeysTwo == 1 .. NumKeysTwo
FailPoints == 0 .. MaxFailPoint
\* the table never inspects a mapped value: two values tell an overwrite
\* from a kept entry
Vals == {1, 2}
Tables == {1, 2}
Targets == (0 .. MaxTarget) \cup {SizeMod - 1}
Thresholds == 0 .. (LfDen + 1)
Policies == {"power_of_two", "prime"}
\* the allocator type of two buffers: propagate_on_container_swap, or not
\* propagating with equal allocators, or not propagating with unequal ones
AllocatorCases == {"propagate", "equal", "unequal"}

Max(a, b) == IF a > b THEN a ELSE b
Min(a, b) == IF a < b THEN a ELSE b

\* ------------------------------------------------------------ the hasher
\* KeyHash is a template parameter.  The hasher used here gives keys 2 and 3
\* the same hash (only KeyEqual tells them apart), lets keys 1, 2, 3 share
\* the ideal bucket 0 at capacities 2 and 4, and sends keys 2, 3 to the last
\* bucket at capacity 5 so that probing wraps around the buffer end.
Hash(k) == IF k % 4 = 0 THEN k \div 4 ELSE (4 * (k \div 2)) % SizeMod

\* ------------------------------------------------------------ detail::PRIMES
PRIMES == << 1, 5, 17, 29, 37, 53, 67, 79, 97, 131, 193, 257, 389, 521, 769,
             1031, 1543, 2053, 3079, 6151, 12289, 24593, 49157 >>

\* the entries that fit the model's size_t ("sized to the address width")
PrimesInRange == SelectSeq(PRIMES, LAMBDA p : p < SizeMod)

\* ------------------------------------------------------------ growth policies
power_of_two_growth_policy(current) == (current * 2) % SizeMod

\* faulty variant: the comparison is current <= item
RECURSIVE prime_loop_not_strict(_, _)
prime_loop_not_strict(current, i) ==
    IF i > Len(PrimesInRange) THEN current
    ELSE IF current <= PrimesInRange[i] THEN PrimesInRange[i]
    ELSE prime_loop_not_strict(current, i + 1)

\* for (const auto &item: detail::PRIMES) if (current < item) return item;
\* return current;
RECURSIVE prime_loop(_, _)
prime_loop(current, i) ==
    IF i > Len(PrimesInRange) THEN current
    ELSE IF current < PrimesInRange[i] THEN PrimesInRange[i]
    ELSE prime_loop(current, i + 1)

prime_growth_policy(current) == prime_loop(current, 1)

growth_policy_function_(pol, current) ==
    IF pol = "power_of_two" THEN power_of_two_growth_policy(current)
    ELSE prime_growth_policy(current)

\* ------------------------------------------------------------ node
\* node(): empty_ = kEmptyMarker, hash_ = kDefaultHash; the storage of an
\* empty node holds no live value (key = val = 0)
kDefaultHash == 0
EmptyNode == [empty |-> TRUE, hash |-> kDefaultHash, key |-> 0, val |-> 0]

\* node(hash, args...) and set_data(hash, args...) when construction succeeds
node_set_data(hash, k, v) == [empty |-> FALSE, hash |-> hash, key |-> k, val |-> v]

\* faulty variant: hash_ is left as it was
node_clear_keeps_hash(n) ==
    [empty |-> TRUE, hash |-> n.hash,
     key |-> IF n.empty THEN n.key ELSE 0, val |-> IF n.empty THEN n.val ELSE 0]

\* node::clear(): the value is destructed only when the node is not empty
node_clear(n) ==
    [empty |-> TRUE, hash |-> kDefaultHash,
     key |-> IF n.empty THEN n.key ELSE 0, val |-> IF n.empty THEN n.val ELSE 0]

\* ------------------------------------------------------------ array
\* array(size, allocator): size default-constructed nodes
array_new(n) == [i \in 1 .. n |-> EmptyNode]

At(d, i) == d[i + 1]
Put(d, i, n) == [d EXCEPT ![i + 1] = n]

\* ------------------------------------------------------------ hash_table
kDefaultLoadFactor == LfDen \div 2

\* faulty variant: the probe steps backwards
next_index_backwards(d, index) == (index + Len(d) - 1) % Len(d)

next_index(d, index) == (index + 1) % Len(d)

hash_to_index(d, hash) == hash % Max(Len(d), 1)

distance_to_ideal_bucket(d, index) ==
    LET hashed_index == hash_to_index(d, At(d, index).hash)
    IN  IF hashed_index > index THEN Len(d) - hashed_index + index
        ELSE index - hashed_index

\* the unit in the last place of the float nearest to n
RECURSIVE float_ulp(_, _)
float_ulp(n, ulp) == IF n < (2 ^ FloatBits) * ulp THEN ulp ELSE float_ulp(n, 2 * ulp)

\* the conversion of data_.size() to float in load_factor_ * data_.size():
\* FloatBits significant bits, rounded to nearest, ties to the even significand
to_float(n) ==
    LET ulp == float_ulp(n, 1)
        q == n \div ulp
        r == n % ulp
    IN  IF 2 * r < ulp THEN q * ulp
        ELSE IF 2 * r > ulp THEN (q + 1) * ulp
        ELSE IF q % 2 = 0 THEN q * ulp
        ELSE (q + 1) * ulp

\* size_type(load_factor_ * data_.size()): the product is a float (a
\* multiple of 1/LfDen of a float is exact), truncated on return
size_to_rehash(tb) == (tb.lf * to_float(Len(tb.data))) \div LfDen

\* faulty variant: the probe gives up one slot early (>= for >)
RECURSIVE find_spot_loop_early(_, _, _, _, _)
find_spot_loop_early(d, key, hash, index, distance) ==
    IF At(d, index).empty \/ distance >= distance_to_ideal_bucket(d, index)
    THEN [index |-> index, found |-> FALSE]
    ELSE IF At(d, index).hash = hash /\ At(d, index).key = key
    THEN [index |-> index, found |-> TRUE]
    ELSE find_spot_loop_early(d, key, hash, next_index(d, index), distance + 1)

RECURSIVE find_spot_loop(_, _, _, _, _)
find_spot_loop(d, key, hash, index, distance) ==
    IF At(d, index).empty \/ distance > distance_to_ideal_bucket(d, index)
    THEN [index |-> index, found |-> FALSE]
    ELSE IF At(d, index).hash = hash /\ At(d, index).key = key
    THEN [index |-> index, found |-> TRUE]
    ELSE find_spot_loop(d, key, hash, next_index(d, index), distance + 1)

find_spot(d, key, hash) ==
    IF Len(d) = 0 THEN [index |-> Len(d), found |-> FALSE]
    ELSE find_spot_loop(d, key, hash, hash_to_index(d, hash), 0)

\* faulty variant: the shift goes on past an entry at probe distance 0
RECURSIVE backward_shift_loop_past_zero(_, _, _)
backward_shift_loop_past_zero(d, prior_index, current_index) ==
    IF ~At(d, current_index).empty
    THEN backward_shift_loop_past_zero(
             Put(Put(d, prior_index, At(d, current_index)), current_index, EmptyNode),
             current_index, next_index(d, current_index))
    ELSE d

RECURSIVE backward_shift_loop(_, _, _)
backward_shift_loop(d, prior_index, current_index) ==
    IF ~At(d, current_index).empty /\ distance_to_ideal_bucket(d, current_index) > 0
    THEN \* data_[prior] = std::move(data_[current]): the source node is cleared
         backward_shift_loop(
             Put(Put(d, prior_index, At(d, current_index)), current_index, EmptyNode),
             current_index, next_index(d, current_index))
    ELSE d

\* faulty variant: the slot is cleared and nothing is shifted back
backward_shift_no_shift(d, index) == Put(d, index, node_clear(At(d, index)))

backward_shift(d, index) ==
    backward_shift_loop(Put(d, index, node_clear(At(d, index))), index, next_index(d, index))

\* faulty variant: no entry is displaced, the node goes to the first empty slot
RECURSIVE insertion_helper_loop_no_swap(_, _, _, _)
insertion_helper_loop_no_swap(d, n, index, distance) ==
    IF ~At(d, index).empty
    THEN insertion_helper_loop_no_swap(d, n, next_index(d, index), (distance + 1) % SizeMod)
    ELSE Put(d, index, n)

\* faulty variant: the displaced node is not carried on
RECURSIVE insertion_helper_loop_drops(_, _, _, _)
insertion_helper_loop_drops(d, n, index, distance) ==
    IF ~At(d, index).empty
    THEN IF distance_to_ideal_bucket(d, index) < distance
         THEN Put(d, index, n)
         ELSE insertion_helper_loop_drops(d, n, next_index(d, index), (distance + 1) % SizeMod)
    ELSE Put(d, index, n)

\* the while loop of _insertion_helper; n is the carried insertion_node
RECURSIVE insertion_helper_loop(_, _, _, _)
insertion_helper_loop(d, n, index, distance) ==
    IF ~At(d, index).empty
    THEN IF distance_to_ideal_bucket(d, index) < distance
         THEN insertion_helper_loop(Put(d, index, n), At(d, index),
                                    next_index(d, index),
                                    (distance_to_ideal_bucket(d, index) + 1) % SizeMod)
         ELSE insertion_helper_loop(d, n, next_index(d, index), (distance + 1) % SizeMod)
    ELSE Put(d, index, n)

\* _insertion_helper(node &&, size_type index); index - ideal_pos is unsigned
insertion_helper(d, n, index) ==
    insertion_helper_loop(d, n, index,
                          (index - hash_to_index(d, n.hash) + SizeMod) % SizeMod)

\* the loop never ends when no slot is empty
HasEmptySlot(d) == \E i \in 1 .. Len(d) : d[i].empty

Occupied(d) == { i \in 0 .. Len(d) - 1 : ~At(d, i).empty }

\* the for loop of _rehash: every occupied item of the old buffer, in buffer
\* order, is moved into rehashing_table and rehashing_table.size_ is bumped
RECURSIVE rehash_loop(_, _, _)
rehash_loop(old, i, rt) ==
    IF i = Len(old) THEN rt
    ELSE IF ~At(old, i).empty
    THEN rehash_loop(old, i + 1,
             [rt EXCEPT !.data = insertion_helper(rt.data, At(old, i),
                                                  hash_to_index(rt.data, At(old, i).hash)),
                        !.size = rt.size + 1])
    ELSE rehash_loop(old, i + 1, rt)

\* faulty variant: the old buffer is copied slot by slot into the new one
rehash_raw_copy(tb, new_capacity) ==
    IF new_capacity > Len(tb.data)
    THEN [data |-> [i \in 1 .. new_capacity |->
                       IF i <= Len(tb.data) THEN tb.data[i] ELSE EmptyNode],
          size |-> tb.size, lf |-> kDefaultLoadFactor]
    ELSE tb

\* _rehash: rehashing_table is built by hash_table(new_capacity, ...), whose
\* load_factor_ is kDefaultLoadFactor, and swap() exchanges load_factor_ too
rehash(tb, new_capacity) ==
    IF new_capacity > Len(tb.data)
    THEN rehash_loop(tb.data, 0,
             [data |-> array_new(new_capacity), size |-> 0, lf |-> kDefaultLoadFactor])
    ELSE tb

\* faulty variant: the policy is applied to the capacity itself
try_to_rehash_no_max(pol, tb) ==
    IF tb.size < size_to_rehash(tb)
    THEN [tb |-> tb, ret |-> FALSE]
    ELSE [tb |-> rehash(tb, growth_policy_function_(pol, Len(tb.data))),
          ret |-> TRUE]

\* _try_to_rehash: the table afterwards and the returned flag
try_to_rehash(pol, tb) ==
    IF tb.size < size_to_rehash(tb)
    THEN [tb |-> tb, ret |-> FALSE]
    ELSE [tb |-> rehash(tb, growth_policy_function_(pol, Max(Len(tb.data), 1))),
          ret |-> TRUE]

\* ------------------------------------------------------------ queries
count(tb, key) == IF find_spot(tb.data, key, Hash(key)).found THEN 1 ELSE 0
contains(tb, key) == count(tb, key) = 1
\* find: the slot index, or Len(data) for end()
find(tb, key) ==
    LET spot_info == find_spot(tb.data, key, Hash(key))
    IN  IF ~spot_info.found THEN Len(tb.data) ELSE spot_info.index
size(tb) == tb.size

\* faulty variant: the number of slots is returned, as std::unordered_map does
bucket_count_of_slots(tb) == Len(tb.data)

\* bucket_count(): return size_;
bucket_count(tb) == tb.size

\* max_bucket_count(): return data_.size();
max_bucket_count(tb) == Len(tb.data)

\* ------------------------------------------------------------ state
VARIABLES
    policy,   \* GrowthPolicy template argument of both tables
    tab,      \* tab[t]: data_ (buffer of nodes), size_, load_factor_ (lf / LfDen)
    ref,      \* ref[t][k]: value a reference map holds for k, 0 when absent
    pc,       \* "idle", "next_capacity" inside the loop of _next_capacity,
              \* "insertion_helper" inside a probe loop that never ends,
              \* "crashed" once the process has been killed by a memory fault,
              \* "undefined" once a table has been built from freed memory
    rsv,      \* locals of the running reserve: table, needed_capacity, current_capacity,
              \* and the parity of the number of loop iterations taken
    last,     \* the call made last and what it returned (ret = 0 while reserve runs)
    faults,   \* number of value constructions that have thrown
    alloc     \* how the allocators of the two buffers relate: see AllocatorCases

vars == << policy, tab, ref, pc, rsv, last, faults, alloc >>

\* last.cap is the capacity the table had when the call was made; last.ret of
\* an insert is 1 when _try_to_rehash returned true, last.ret of a failed
\* insert is size() when the call was made; last.out
\* tells how the call ended, last.seq the slots a traversal yielded,
\* last.reads the slot positions a traversal dereferenced and last.held the
\* table a move was given as its source, as it was when the call was made.
\* For a call on a buffer alone last.held is the buffer (*this) and last.other
\* the argument buffer as they were when the call was made, last.fill the
\* fill element, last.freed the buffers whose storage has been deallocated
\* while data_ still points to it and last.leaked the number of buffers that
\* were allocated and never released
NoTable == [data |-> << >>, size |-> 0, lf |-> 0]
NoCall == [op |-> "none", t |-> 0, key |-> 0, found |-> FALSE, index |-> 0, arg |-> 0,
           ret |-> 0, cap |-> 0, out |-> "returned", seq |-> << >>, reads |-> {},
           held |-> NoTable, other |-> NoTable, fill |-> EmptyNode, freed |-> {},
           leaked |-> 0]
NoReserve == [t |-> 0, needed |-> 0, current |-> 0, iter |-> 0]
EmptyRef == [k \in Keys |-> 0]

\* table 1 is built by hash_table(capacity) or hash_table(); table 2 by
\* hash_table(); the allocator is std::allocator, whose objects are all equal
Init ==
    /\ policy \in Policies
    /\ \E c \in 0 .. MaxInitCap :
          tab = [t \in Tables |->
                    [data |-> array_new(IF t = 1 THEN c ELSE 0), size |-> 0,
                     lf |-> kDefaultLoadFactor]]
    /\ ref = [t \in Tables |-> EmptyRef]
    /\ pc = "idle"
    /\ rsv = NoReserve
    /\ last = NoCall
    /\ faults = 0
    /\ alloc = "equal"

\* faulty variant: an overwrite counts as a new entry
insert_counts_overwrite(pol, tb, k, v) ==
    LET hash == Hash(k)
        spot0 == find_spot(tb.data, k, hash)
    IN  IF spot0.found
        THEN [tb |-> [tb EXCEPT !.data = Put(tb.data, spot0.index, node_set_data(hash, k, v)),
                                !.size = (tb.size + 1) % SizeMod],
              index |-> spot0.index, found |-> TRUE, hangs |-> FALSE, rehashed |-> FALSE]
        ELSE LET r == try_to_rehash(pol, tb)
                 spot == IF r.ret THEN find_spot(r.tb.data, k, hash) ELSE spot0
             IN  [tb |-> [r.tb EXCEPT
                            !.data = insertion_helper(r.tb.data, node_set_data(hash, k, v),
                                                      spot.index),
                            !.size = (r.tb.size + 1) % SizeMod],
                  index |-> spot.index, found |-> FALSE, hangs |-> FALSE,
                       rehashed |-> r.ret]

\* faulty variant: the flag returned is true for a new key, false for an overwrite
insert_flag_inverted(pol, tb, k, v) ==
    LET hash == Hash(k)
        spot0 == find_spot(tb.data, k, hash)
    IN  IF spot0.found
        THEN [tb |-> [tb EXCEPT !.data = Put(tb.data, spot0.index, node_set_data(hash, k, v))],
              index |-> spot0.index, found |-> FALSE, hangs |-> FALSE, rehashed |-> FALSE]
        ELSE LET r == try_to_rehash(pol, tb)
                 spot == IF r.ret THEN find_spot(r.tb.data, k, hash) ELSE spot0
             IN  IF ~HasEmptySlot(r.tb.data)
                 THEN [tb |-> r.tb, index |-> spot.index, found |-> TRUE, hangs |-> TRUE,
                       rehashed |-> r.ret]
                 ELSE [tb |-> [r.tb EXCEPT
                                 !.data = insertion_helper(r.tb.data, node_set_data(hash, k, v),
                                                           spot.index),
                                 !.size = (r.tb.size + 1) % SizeMod],
                       index |-> spot.index, found |-> TRUE, hangs |-> FALSE,
                       rehashed |-> r.ret]

\* faulty variant: the spot found before the rehash is used after it
insert_stale_spot(pol, tb, k, v) ==
    LET hash == Hash(k)
        spot0 == find_spot(tb.data, k, hash)
    IN  IF spot0.found
        THEN [tb |-> [tb EXCEPT !.data = Put(tb.data, spot0.index, node_set_data(hash, k, v))],
              index |-> spot0.index, found |-> TRUE, hangs |-> FALSE, rehashed |-> FALSE]
        ELSE LET r == try_to_rehash(pol, tb)
                 spot == [index |-> spot0.index % Max(Len(r.tb.data), 1), found |-> FALSE]
             IN  IF ~HasEmptySlot(r.tb.data)
                 THEN [tb |-> r.tb, index |-> spot.index, found |-> FALSE, hangs |-> TRUE,
                       rehashed |-> r.ret]
                 ELSE [tb |-> [r.tb EXCEPT
                                 !.data = insertion_helper(r.tb.data, node_set_data(hash, k, v),
                                                           spot.index),
                                 !.size = (r.tb.size + 1) % SizeMod],
                       index |-> spot.index, found |-> FALSE, hangs |-> FALSE,
                       rehashed |-> r.ret]

\* faulty variant: _try_to_rehash runs before the key is looked up, so an
\* overwrite can grow the buffer
insert_rehash_on_overwrite(pol, tb, k, v) ==
    LET hash == Hash(k)
        r == try_to_rehash(pol, tb)
        spot == find_spot(r.tb.data, k, hash)
    IN  IF spot.found
        THEN [tb |-> [r.tb EXCEPT !.data = Put(r.tb.data, spot.index, node_set_data(hash, k, v))],
              index |-> spot.index, found |-> TRUE, hangs |-> FALSE, rehashed |-> r.ret]
        ELSE IF ~HasEmptySlot(r.tb.data)
             THEN [tb |-> r.tb, index |-> spot.index, found |-> FALSE, hangs |-> TRUE,
                   rehashed |-> r.ret]
             ELSE [tb |-> [r.tb EXCEPT
                             !.data = insertion_helper(r.tb.data, node_set_data(hash, k, v),
                                                       spot.index),
                             !.size = (r.tb.size + 1) % SizeMod],
                   index |-> spot.index, found |-> FALSE, hangs |-> FALSE,
                   rehashed |-> r.ret]

\* ------------------------------------------------------------ insert
\* _insert(key, args...) with a value whose construction succeeds; rehashed
\* is what _try_to_rehash returned
insert_(pol, tb, k, v) ==
    LET hash == Hash(k)
        spot0 == find_spot(tb.data, k, hash)
    IN  IF spot0.found
        THEN [tb |-> [tb EXCEPT !.data = Put(tb.data, spot0.index, node_set_data(hash, k, v))],
              index |-> spot0.index, found |-> TRUE, hangs |-> FALSE, rehashed |-> FALSE]
        ELSE LET r == try_to_rehash(pol, tb)
                 spot == IF r.ret THEN find_spot(r.tb.data, k, hash) ELSE spot0
             IN  IF ~HasEmptySlot(r.tb.data)
                 THEN [tb |-> r.tb, index |-> spot.index, found |-> FALSE, hangs |-> TRUE,
                       rehashed |-> r.ret]
                 ELSE [tb |-> [r.tb EXCEPT
                                 !.data = insertion_helper(r.tb.data, node_set_data(hash, k, v),
                                                           spot.index),
                                 !.size = (r.tb.size + 1) % SizeMod],
                       index |-> spot.index, found |-> FALSE, hangs |-> FALSE,
                       rehashed |-> r.ret]

Insert(t, k, v) ==
    /\ pc = "idle"
    /\ LET r == insert_(policy, tab[t], k, v)
       IN  /\ tab' = [tab EXCEPT ![t] = r.tb]
           /\ IF r.hangs
              THEN /\ pc' = "insertion_helper"
                   /\ UNCHANGED << ref, last >>
              ELSE /\ pc' = pc
                   /\ ref' = [ref EXCEPT ![t][k] = v]
                   /\ last' = [NoCall EXCEPT !.op = "insert", !.t = t, !.key = k,
                                             !.found = r.found, !.index = r.index, !.arg = v,
                                             !.cap = Len(tab[t].data),
                                             !.ret = IF r.rehashed THEN 1 ELSE 0]
    /\ UNCHANGED << policy, alloc, rsv, faults >>

\* faulty variant: set_data constructs over the old value without clear()
insert_throwing_no_clear(pol, tb, k) ==
    LET hash == Hash(k)
        spot0 == find_spot(tb.data, k, hash)
    IN  IF spot0.found
        THEN [tb |-> [tb EXCEPT !.data = Put(tb.data, spot0.index,
                                             [At(tb.data, spot0.index) EXCEPT !.val = 0])],
              index |-> spot0.index, found |-> TRUE]
        ELSE [tb |-> try_to_rehash(pol, tb).tb, index |-> spot0.index, found |-> FALSE]

\* _insert(key, args...) with a value whose construction throws: on the
\* overwrite path set_data has already cleared the node, on the other path
\* _try_to_rehash has already run when node(hash, args...) throws
insert_throwing(pol, tb, k) ==
    LET hash == Hash(k)
        spot0 == find_spot(tb.data, k, hash)
    IN  IF spot0.found
        THEN [tb |-> [tb EXCEPT !.data = Put(tb.data, spot0.index, node_clear(At(tb.data, spot0.index)))],
              index |-> spot0.index, found |-> TRUE]
        ELSE [tb |-> try_to_rehash(pol, tb).tb, index |-> spot0.index, found |-> FALSE]

InsertThrows(t, k) ==
    /\ pc = "idle"
    /\ faults < MaxFaults
    /\ faults' = faults + 1
    /\ LET r == insert_throwing(policy, tab[t], k)
       IN  /\ tab' = [tab EXCEPT ![t] = r.tb]
           /\ last' = [NoCall EXCEPT !.op = "insert_failed", !.t = t, !.key = k,
                                     !.found = r.found, !.index = r.index,
                                     !.cap = Len(tab[t].data), !.ret = size(tab[t])]
    /\ UNCHANGED << policy, alloc, ref, pc, rsv >>

\* faulty variant: size_ is decremented whether or not the key was found
erase_always_decrements(tb, k) ==
    LET spot_info == find_spot(tb.data, k, Hash(k))
    IN  IF spot_info.found
        THEN [tb |-> [tb EXCEPT !.data = backward_shift(tb.data, spot_info.index),
                                !.size = (tb.size + SizeMod - 1) % SizeMod],
              ret |-> 1, index |-> spot_info.index]
        ELSE [tb |-> [tb EXCEPT !.size = (tb.size + SizeMod - 1) % SizeMod],
              ret |-> 0, index |-> spot_info.index]

\* ------------------------------------------------------------ erase(key)
erase_(tb, k) ==
    LET spot_info == find_spot(tb.data, k, Hash(k))
    IN  IF spot_info.found
        THEN [tb |-> [tb EXCEPT !.data = backward_shift(tb.data, spot_info.index),
                                !.size = (tb.size + SizeMod - 1) % SizeMod],
              ret |-> 1, index |-> spot_info.index]
        ELSE [tb |-> tb, ret |-> 0, index |-> spot_info.index]

Erase(t, k) ==
    /\ pc = "idle"
    /\ LET r == erase_(tab[t], k)
       IN  /\ tab' = [tab EXCEPT ![t] = r.tb]
           /\ last' = [NoCall EXCEPT !.op = "erase", !.t = t, !.key = k,
                                     !.found = (r.ret = 1), !.index = r.index, !.ret = r.ret]
    /\ ref' = [ref EXCEPT ![t][k] = 0]
    /\ UNCHANGED << policy, alloc, pc, rsv, faults >>

\* ------------------------------------------------------------ clear
clear(tb) == [tb EXCEPT !.data = << >>, !.size = 0]

Clear(t) ==
    /\ pc = "idle"
    /\ tab' = [tab EXCEPT ![t] = clear(tab[t])]
    /\ ref' = [ref EXCEPT ![t] = EmptyRef]
    /\ last' = [NoCall EXCEPT !.op = "clear", !.t = t]
    /\ UNCHANGED << policy, alloc, pc, rsv, faults >>

\* ------------------------------------------------------------ max_load_factor(x)
max_load_factor(tb) == tb.lf

set_max_load_factor(tb, x) == [tb EXCEPT !.lf = Min(LfDen, x)]

MaxLoadFactor(t, x) ==
    /\ pc = "idle"
    /\ tab' = [tab EXCEPT ![t] = set_max_load_factor(tab[t], x)]
    /\ last' = [NoCall EXCEPT !.op = "max_load_factor", !.t = t, !.arg = x]
    /\ UNCHANGED << policy, alloc, ref, pc, rsv, faults >>

\* ------------------------------------------------------------ reserve / rehash
\* reserve(new_capacity) enters _next_capacity
ReserveCall(t, target) ==
    /\ pc = "idle"
    /\ pc' = "next_capacity"
    /\ rsv' = [t |-> t, needed |-> target, current |-> Len(tab[t].data), iter |-> 0]
    /\ last' = [NoCall EXCEPT !.op = "reserve", !.t = t, !.arg = target,
                              !.cap = Len(tab[t].data)]
    /\ UNCHANGED << policy, alloc, tab, ref, faults >>

\* one iteration of while (needed_capacity >= current_capacity)
NextCapacityStep ==
    /\ pc = "next_capacity"
    /\ rsv.needed >= rsv.current
    /\ rsv' = [rsv EXCEPT !.current = growth_policy_function_(policy, rsv.current),
                          !.iter = 1 - rsv.iter]
    /\ UNCHANGED << policy, alloc, tab, ref, pc, last, faults >>

\* the rest of reserve once _next_capacity has returned next_capacity
reserve_tail(tb, new_capacity, next_capacity) ==
    IF new_capacity > Len(tb.data) THEN rehash(tb, next_capacity) ELSE tb

ReserveReturn ==
    /\ pc = "next_capacity"
    /\ rsv.needed < rsv.current
    /\ tab' = [tab EXCEPT ![rsv.t] = reserve_tail(tab[rsv.t], rsv.needed, rsv.current)]
    /\ last' = [last EXCEPT !.ret = rsv.current]
    /\ pc' = "idle"
    /\ rsv' = NoReserve
    /\ UNCHANGED << policy, alloc, ref, faults >>

\* ------------------------------------------------------------ specification
Next ==
    \/ \E k \in Keys, v \in Vals : Insert(1, k, v)
    \/ \E k \in Keys : Erase(1, k)
    \/ Clear(1)
    \/ \E x \in Thresholds : MaxLoadFactor(1, x)
    \/ \E target \in Targets : ReserveCall(1, target)
    \/ NextCapacityStep
    \/ ReserveReturn

Spec == Init /\ [][Next]_vars

\* the same calls with a value type whose construction can throw
NextThrowing ==
    \/ Next
    \/ \E k \in Keys : InsertThrows(1, k)

ThrowingSpec == Init /\ [][NextThrowing]_vars

\* inserts and erases with a value type whose construction can throw
NextFailedInsert ==
    \/ \E k \in KeysTwo, v \in Vals : Insert(1, k, v)
    \/ \E k \in KeysTwo : Erase(1, k)
    \/ \E k \in KeysTwo : InsertThrows(1, k)

FailedInsertSpec == Init /\ [][NextFailedInsert]_vars

\* the running call keeps executing: the loop of _next_capacity takes its next
\* iteration and reserve returns once the loop is left
FairSpec == Spec /\ WF_vars(NextCapacityStep) /\ WF_vars(ReserveReturn)

\* ------------------------------------------------------------ growth policies alone
\* a call of the policy object on any size_t
ApplyPowerOfTwo(current) ==
    /\ pc = "idle"
    /\ last' = [NoCall EXCEPT !.op = "power_of_two_growth_policy", !.arg = current,
                              !.ret = power_of_two_growth_policy(current)]
    /\ UNCHANGED << policy, alloc, tab, ref, pc, rsv, faults >>

ApplyPrime(current) ==
    /\ pc = "idle"
    /\ last' = [NoCall EXCEPT !.op = "prime_growth_policy", !.arg = current,
                              !.ret = prime_growth_policy(current)]
    /\ UNCHANGED << policy, alloc, tab, ref, pc, rsv, faults >>

NextPolicy ==
    \/ \E current \in 0 .. SizeMod - 1 : ApplyPowerOfTwo(current)
    \/ \E current \in 0 .. SizeMod - 1 : ApplyPrime(current)

PolicySpec == Init /\ [][NextPolicy]_vars

\* ------------------------------------------------------------ unordered_map
\* hash_table::emplace(args...) is _insert(value_type(args...))
emplace(pol, tb, k, v) == insert_(pol, tb, k, v)

\* unordered_map::try_emplace(key, args...) forwards to hash_table::emplace
try_emplace(pol, tb, k, v) == emplace(pol, tb, k, v)

\* the reference map keeps the value of a key it already holds
TryEmplace(t, k, v) ==
    /\ pc = "idle"
    /\ LET r == try_emplace(policy, tab[t], k, v)
       IN  /\ tab' = [tab EXCEPT ![t] = r.tb]
           /\ IF r.hangs
              THEN /\ pc' = "insertion_helper"
                   /\ UNCHANGED << ref, last >>
              ELSE /\ pc' = pc
                   /\ ref' = [ref EXCEPT ![t][k] = IF ref[t][k] = 0 THEN v ELSE ref[t][k]]
                   /\ last' = [NoCall EXCEPT !.op = "try_emplace", !.t = t, !.key = k,
                                             !.found = r.found, !.index = r.index, !.arg = v,
                                             !.cap = Len(tab[t].data)]
    /\ UNCHANGED << policy, alloc, rsv, faults >>

\* unordered_map::at(key) is hash_table_.find(key)->second: the slot whose
\* mapped value the returned reference designates
at(tb, k) == find(tb, k)

\* what a read of slot `index` through a pointer into the buffer can do: a
\* slot of the buffer yields its node, a position outside the buffer is
\* undefined and either kills the process or yields whatever lies there
ReadOutcomes(d, index) ==
    IF index >= 0 /\ index < Len(d) THEN { "returned" } ELSE { "returned", "crashed" }

\* at(key) followed by the caller's read of the reference it got
MapAt(t, k) ==
    /\ pc = "idle"
    /\ LET index == at(tab[t], k)
       IN  \E o \in ReadOutcomes(tab[t].data, index) :
           \E garbage \in Vals \cup {0} :
              /\ pc' = IF o = "crashed" THEN "crashed" ELSE pc
              /\ last' = [NoCall EXCEPT
                            !.op = "at", !.t = t, !.key = k, !.index = index, !.out = o,
                            !.found = (index # Len(tab[t].data)),
                            !.ret = IF index < Len(tab[t].data) THEN At(tab[t].data, index).val
                                    ELSE IF o = "crashed" THEN 0 ELSE garbage]
    /\ UNCHANGED << policy, alloc, tab, ref, rsv, faults >>

\* ------------------------------------------------------------ iteration
\* positions are slot indices: end() is Len(d), first_ - 1 is -1.  Every
\* operator returns the position reached and the positions dereferenced.

\* while (current->empty() && current != last) ++current;
\* current->empty() is read before current is compared with last; at
\* current = last the loop ends whatever the read yields
RECURSIVE begin_loop(_, _, _)
begin_loop(d, current, reads) ==
    IF current < Len(d) /\ At(d, current).empty
    THEN begin_loop(d, current + 1, reads \cup {current})
    ELSE [pos |-> current, reads |-> reads \cup {current}]

begin(d) == begin_loop(d, 0, {})

cbegin(d) == begin_loop(d, 0, {})

end(d) == Len(d)

\* hash_table_iterator::go_next
RECURSIVE go_next(_, _, _)
go_next(d, data_, reads) ==
    IF data_ + 1 = Len(d) THEN [pos |-> data_ + 1, reads |-> reads]
    ELSE IF ~At(d, data_ + 1).empty THEN [pos |-> data_ + 1, reads |-> reads \cup {data_ + 1}]
    ELSE go_next(d, data_ + 1, reads \cup {data_ + 1})

\* hash_table_iterator::go_prior
RECURSIVE go_prior(_, _, _)
go_prior(d, data_, reads) ==
    IF data_ - 1 = 0 - 1 THEN [pos |-> data_ - 1, reads |-> reads]
    ELSE IF ~At(d, data_ - 1).empty THEN [pos |-> data_ - 1, reads |-> reads \cup {data_ - 1}]
    ELSE go_prior(d, data_ - 1, reads \cup {data_ - 1})

\* for (; it != end(); ++it) use(*it);
RECURSIVE forward(_, _, _, _)
forward(d, it, seq, reads) ==
    IF it = end(d) THEN [seq |-> seq, reads |-> reads]
    ELSE LET n == go_next(d, it, reads \cup {it})
         IN  forward(d, n.pos, Append(seq, it), n.reads)

\* for (--it; it != rend(); --it) use(*it);
RECURSIVE backward(_, _, _, _)
backward(d, it, seq, reads) ==
    LET n == go_prior(d, it, reads)
    IN  IF n.pos = 0 - 1 THEN [seq |-> seq, reads |-> reads]
        ELSE backward(d, n.pos, Append(seq, n.pos), n.reads \cup {n.pos})

\* a read outside the buffer is undefined: the traversal is killed or goes on
TraversalOutcomes(d, reads) ==
    IF \A i \in reads : i >= 0 /\ i < Len(d) THEN { "returned" } ELSE { "returned", "crashed" }

\* a whole traversal from begin() (isconst = 0) or cbegin() (isconst = 1) to end()
Iterate(t, isconst) ==
    /\ pc = "idle"
    /\ LET d == tab[t].data
           b == IF isconst = 1 THEN cbegin(d) ELSE begin(d)
           f == forward(d, b.pos, << >>, b.reads)
       IN  \E o \in TraversalOutcomes(d, b.reads) :
              /\ pc' = IF o = "crashed" THEN "crashed" ELSE pc
              /\ last' = [NoCall EXCEPT
                            !.op = "iterate", !.t = t, !.arg = isconst, !.out = o,
                            !.seq = IF o = "crashed" THEN << >> ELSE f.seq,
                            !.reads = IF o = "crashed" THEN b.reads ELSE f.reads]
    /\ UNCHANGED << policy, alloc, tab, ref, rsv, faults >>

\* a whole traversal by decrements from end() down to the first entry
IteratePrior(t) ==
    /\ pc = "idle"
    /\ LET d == tab[t].data
           f == backward(d, end(d), << >>, {})
       IN  last' = [NoCall EXCEPT !.op = "iterate_prior", !.t = t,
                                  !.seq = f.seq, !.reads = f.reads]
    /\ UNCHANGED << policy, alloc, tab, ref, pc, rsv, faults >>

\* the calls of an unordered_map: insert, erase and clear with try_emplace, at
\* and the traversals
NextMap ==
    \/ \E k \in Keys, v \in Vals : Insert(1, k, v)
    \/ \E k \in Keys : Erase(1, k)
    \/ Clear(1)
    \/ \E k \in Keys, v \in Vals : TryEmplace(1, k, v)
    \/ \E k \in Keys : MapAt(1, k)
    \/ \E isconst \in {0, 1} : Iterate(1, isconst)
    \/ IteratePrior(1)

MapSpec == Init /\ [][NextMap]_vars

\* ------------------------------------------------------------ copy and move
\* node(const node &other): empty_ and hash_ are copied, the value is
\* copy-constructed when other is not empty
node_copy(n) ==
    IF n.empty THEN [empty |-> TRUE, hash |-> n.hash, key |-> 0, val |-> 0]
    ELSE [empty |-> FALSE, hash |-> n.hash, key |-> n.key, val |-> n.val]

\* array(const array &other): every new slot is constructed from other.data_[i]
array_copy(other_data) == [i \in 1 .. Len(other_data) |-> node_copy(other_data[i])]

\* hash_table(const hash_table &other)
copy_construct(other) ==
    [data |-> array_copy(other.data), size |-> other.size, lf |-> other.lf]

\* array::operator=(const array &other): the own buffer is destroyed and
\* deallocated first, then each of the other.size_ new slots is constructed
\* from data_[i], a slot of the buffer just freed, not from other.data_[i].
\* Reading freed memory is undefined; the buffers a build can end with:
\* every slot read as the destroyed (empty) node, or the slots read as they
\* were before destruction (nothing beyond the old buffer).  No slot is read
\* when other is empty.
array_copy_assign(own_data, other_data) ==
    IF Len(other_data) = 0 THEN { << >> }
    ELSE { [i \in 1 .. Len(other_data) |-> node_copy(EmptyNode)],
           [i \in 1 .. Len(other_data) |->
               IF i <= Len(own_data) THEN node_copy(own_data[i]) ELSE node_copy(EmptyNode)] }

\* hash_table::operator=(const hash_table &other): the tables it can leave
copy_assign(tb, other) ==
    { [data |-> d, size |-> other.size, lf |-> other.lf] :
        d \in array_copy_assign(tb.data, other.data) }

\* array(array &&other) and array::operator=(array &&other) with
\* std::allocator: the buffer pointer is taken, other is left with nullptr, 0
array_move(other_data) == [dst |-> other_data, src |-> << >>]

\* hash_table(hash_table &&other): members are moved, then other.clear()
move_construct(other) ==
    LET m == array_move(other.data)
    IN  [dst |-> [data |-> m.dst, size |-> other.size, lf |-> other.lf],
         src |-> clear([other EXCEPT !.data = m.src])]

\* faulty variant: other.clear() is left out
move_assign_keeps_size(tb, other) ==
    LET m == array_move(other.data)
    IN  [dst |-> [data |-> m.dst, size |-> other.size, lf |-> other.lf],
         src |-> [other EXCEPT !.data = m.src]]

\* hash_table::operator=(hash_table &&other)
move_assign(tb, other) ==
    LET m == array_move(other.data)
    IN  [dst |-> [data |-> m.dst, size |-> other.size, lf |-> other.lf],
         src |-> clear([other EXCEPT !.data = m.src])]

\* table t is constructed anew as a copy of table o
CopyConstruct(t, o) ==
    /\ pc = "idle"
    /\ t # o
    /\ tab' = [tab EXCEPT ![t] = copy_construct(tab[o])]
    /\ ref' = [ref EXCEPT ![t] = ref[o]]
    /\ last' = [NoCall EXCEPT !.op = "copy_construct", !.t = t, !.arg = o]
    /\ UNCHANGED << policy, alloc, pc, rsv, faults >>

\* tab[t] = tab[o]; once freed memory has been read the run is undefined: it
\* is killed, or goes on from one of the tables of copy_assign and is not
\* followed any further
CopyAssign(t, o) ==
    /\ pc = "idle"
    /\ t # o
    /\ \E r \in copy_assign(tab[t], tab[o]) :
       \E out \in IF Len(tab[o].data) = 0 THEN { "returned" } ELSE { "returned", "crashed" } :
          /\ tab' = IF out = "crashed" THEN tab ELSE [tab EXCEPT ![t] = r]
          /\ pc' = IF out = "crashed" THEN "crashed"
                   ELSE IF Len(tab[o].data) = 0 THEN pc ELSE "undefined"
          /\ last' = [NoCall EXCEPT !.op = "copy_assign", !.t = t, !.arg = o, !.out = out]
    /\ ref' = [ref EXCEPT ![t] = ref[o]]
    /\ UNCHANGED << policy, alloc, rsv, faults >>

\* table t is constructed anew from std::move(table o)
MoveConstruct(t, o) ==
    /\ pc = "idle"
    /\ t # o
    /\ LET m == move_construct(tab[o])
       IN  tab' = [tab EXCEPT ![t] = m.dst, ![o] = m.src]
    /\ ref' = [ref EXCEPT ![t] = ref[o], ![o] = EmptyRef]
    /\ last' = [NoCall EXCEPT !.op = "move_construct", !.t = t, !.arg = o, !.held = tab[o]]
    /\ UNCHANGED << policy, alloc, pc, rsv, faults >>

\* tab[t] = std::move(tab[o])
MoveAssign(t, o) ==
    /\ pc = "idle"
    /\ t # o
    /\ LET m == move_assign(tab[t], tab[o])
       IN  tab' = [tab EXCEPT ![t] = m.dst, ![o] = m.src]
    /\ ref' = [ref EXCEPT ![t] = ref[o], ![o] = EmptyRef]
    /\ last' = [NoCall EXCEPT !.op = "move_assign", !.t = t, !.arg = o, !.held = tab[o]]
    /\ UNCHANGED << policy, alloc, pc, rsv, faults >>

\* ------------------------------------------------------------ operator==
\* for (auto it = other.begin(); it != other.end(); ++it)
\*     if (!contains(key(*it))) return false;
RECURSIVE operator_eq_loop(_, _, _)
operator_eq_loop(tb, other_data, it) ==
    IF it = end(other_data) THEN TRUE
    ELSE IF ~contains(tb, At(other_data, it).key) THEN FALSE
    ELSE operator_eq_loop(tb, other_data, go_next(other_data, it, {}).pos)

\* the result and the positions of other's buffer that begin() dereferenced
operator_eq(tb, other) ==
    IF size(other) # size(tb) THEN [ret |-> FALSE, reads |-> {}]
    ELSE LET b == cbegin(other.data)
         IN  [ret |-> operator_eq_loop(tb, other.data, b.pos), reads |-> b.reads]

operator_ne(tb, other) ==
    LET e == operator_eq(tb, other) IN [ret |-> ~e.ret, reads |-> e.reads]

\* tab[t] == tab[o] (negated = FALSE) or tab[t] != tab[o] (negated = TRUE)
Equals(t, o, negated) ==
    /\ pc = "idle"
    /\ t # o
    /\ LET e == IF negated THEN operator_ne(tab[t], tab[o]) ELSE operator_eq(tab[t], tab[o])
       IN  \E out \in TraversalOutcomes(tab[o].data, e.reads) :
              /\ pc' = IF out = "crashed" THEN "crashed" ELSE pc
              /\ last' = [NoCall EXCEPT
                            !.op = IF negated THEN "operator!=" ELSE "operator==",
                            !.t = t, !.arg = o, !.out = out, !.reads = e.reads,
                            !.found = IF out = "crashed" THEN FALSE ELSE e.ret]
    /\ UNCHANGED << policy, alloc, tab, ref, rsv, faults >>

\* two tables of one type: table 1 is filled and emptied, each table is
\* copied and moved into the other and compared with the other
NextTwo ==
    \/ \E k \in KeysTwo, v \in Vals : Insert(1, k, v)
    \/ \E k \in KeysTwo : Erase(1, k)
    \/ \E t, o \in Tables : CopyConstruct(t, o)
    \/ \E t, o \in Tables : CopyAssign(t, o)
    \/ \E t, o \in Tables : MoveConstruct(t, o)
    \/ \E t, o \in Tables : MoveAssign(t, o)
    \/ \E t, o \in Tables, negated \in BOOLEAN : Equals(t, o, negated)

TwoSpec == Init /\ [][NextTwo]_vars

\* ------------------------------------------------------------ a rehash that fails
\* node::swap on the slot self, which is made of copies: node temp = *this;
\* *this = other; other = temp. c copy constructions of the value succeed and
\* the one after them throws; operator= has cleared its target by then.
node_swap_throwing(self, other, c) ==
    IF ~self.empty /\ c = 0
    THEN [self |-> self, other |-> other, c |-> 0, thrown |-> TRUE]
    ELSE LET c1 == IF self.empty THEN c ELSE c - 1
         IN  IF ~other.empty /\ c1 = 0
             THEN [self |-> EmptyNode, other |-> other, c |-> 0, thrown |-> TRUE]
             ELSE LET c2 == IF other.empty THEN c1 ELSE c1 - 1
                  IN  IF ~self.empty /\ c2 = 0
                      THEN [self |-> other, other |-> EmptyNode, c |-> 0, thrown |-> TRUE]
                      ELSE [self |-> other, other |-> self,
                            c |-> IF self.empty THEN c2 ELSE c2 - 1, thrown |-> FALSE]

\* the while loop of _insertion_helper and the swap after it; n is
\* insertion_node, which in _rehash is the item of the live buffer itself
RECURSIVE insertion_helper_throwing_loop(_, _, _, _, _)
insertion_helper_throwing_loop(d, n, index, distance, c) ==
    IF ~At(d, index).empty
    THEN IF distance_to_ideal_bucket(d, index) < distance
         THEN LET s == node_swap_throwing(At(d, index), n, c)
              IN  IF s.thrown
                  THEN [d |-> Put(d, index, s.self), n |-> s.other, c |-> 0, thrown |-> TRUE]
                  ELSE insertion_helper_throwing_loop(
                           Put(d, index, s.self), s.other, next_index(d, index),
                           (distance_to_ideal_bucket(d, index) + 1) % SizeMod, s.c)
         ELSE insertion_helper_throwing_loop(d, n, next_index(d, index),
                                             (distance + 1) % SizeMod, c)
    ELSE LET s == node_swap_throwing(At(d, index), n, c)
         IN  [d |-> Put(d, index, s.self), n |-> s.other, c |-> s.c, thrown |-> s.thrown]

\* the for loop of _rehash over the live buffer; each item is handed to
\* rehashing_table._insertion_helper(std::move(item)) and is what the swaps
\* of the helper leave in it
RECURSIVE rehash_throwing_loop(_, _, _, _)
rehash_throwing_loop(live, i, rt, c) ==
    IF i = Len(live) THEN [live |-> live, rt |-> rt, thrown |-> FALSE]
    ELSE IF ~At(live, i).empty
    THEN LET h == insertion_helper_throwing_loop(
                      rt.data, At(live, i), hash_to_index(rt.data, At(live, i).hash), 0, c)
         IN  IF h.thrown
             THEN [live |-> Put(live, i, h.n), rt |-> rt, thrown |-> TRUE]
             ELSE rehash_throwing_loop(Put(live, i, h.n), i + 1,
                      [rt EXCEPT !.data = h.d, !.size = rt.size + 1], h.c)
    ELSE rehash_throwing_loop(live, i + 1, rt, c)

\* _rehash where step f fails: f = 0 is the allocation of the buffer of
\* rehashing_table, f > 0 the f-th copy construction of a value. The live
\* table is what it is when the exception leaves _rehash; rehashing_table
\* is destroyed on the way. thrown is FALSE when the rehash has fewer steps.
rehash_throwing(tb, new_capacity, f) ==
    IF new_capacity > Len(tb.data)
    THEN IF f = 0
         THEN [tb |-> tb, thrown |-> TRUE]
         ELSE LET r == rehash_throwing_loop(tb.data, 0,
                           [data |-> array_new(new_capacity), size |-> 0,
                            lf |-> kDefaultLoadFactor], f - 1)
              IN  IF r.thrown
                  THEN [tb |-> [tb EXCEPT !.data = r.live], thrown |-> TRUE]
                  ELSE [tb |-> r.rt, thrown |-> FALSE]
    ELSE [tb |-> tb, thrown |-> FALSE]

\* insert of a new key whose _try_to_rehash runs _rehash, which fails at step f
InsertRehashThrows(t, k, f) ==
    /\ pc = "idle"
    /\ faults < MaxFaults
    /\ ~find_spot(tab[t].data, k, Hash(k)).found
    /\ ~(tab[t].size < size_to_rehash(tab[t]))
    /\ LET r == rehash_throwing(tab[t],
                    growth_policy_function_(policy, Max(Len(tab[t].data), 1)), f)
       IN  /\ r.thrown
           /\ tab' = [tab EXCEPT ![t] = r.tb]
           /\ last' = [NoCall EXCEPT !.op = "rehash_failed", !.t = t, !.key = k, !.arg = f,
                                     !.cap = Len(tab[t].data), !.held = tab[t]]
    /\ faults' = faults + 1
    /\ UNCHANGED << policy, alloc, ref, pc, rsv >>

\* inserts and erases with a value type whose copy construction can throw
NextFailedRehash ==
    \/ \E k \in Keys, v \in Vals : Insert(1, k, v)
    \/ \E k \in Keys : Erase(1, k)
    \/ \E k \in Keys, f \in FailPoints : InsertRehashThrows(1, k, f)

FailedRehashSpec == Init /\ [][NextFailedRehash]_vars

\* ------------------------------------------------------------ the buffer alone
\* In the runs of the buffer alone tab[t].data is the detail::array t; its
\* elements are nodes, as in data_ of the table, and size and lf are not used.
\* The elements the runs put into a buffer:
ArrayElements == {EmptyNode} \cup { node_set_data(Hash(1), 1, v) : v \in Vals }

\* array(size_type size, const_reference default_value)
array_fill(n, default_value) == [i \in 1 .. n |-> node_copy(default_value)]

\* faulty variant: the elements that are kept are the last ones
array_resize_keeps_tail(d, new_size, default_value) ==
    IF Len(d) > new_size
    THEN [i \in 1 .. new_size |-> node_copy(d[Len(d) - new_size + i])]
    ELSE IF Len(d) < new_size
    THEN [i \in 1 .. new_size |->
             IF i <= Len(d) THEN node_copy(d[i]) ELSE node_copy(default_value)]
    ELSE d

\* array::resize(new_size, default_value): the buffer afterwards; each kept
\* element is constructed from std::move_if_noexcept(data_[i]), each further
\* one from default_value, and the old buffer is destroyed
array_resize(d, new_size, default_value) ==
    IF Len(d) > new_size
    THEN [i \in 1 .. new_size |-> node_copy(d[i])]
    ELSE IF Len(d) < new_size
    THEN [i \in 1 .. new_size |->
             IF i <= Len(d) THEN node_copy(d[i]) ELSE node_copy(default_value)]
    ELSE d

\* t.resize(n, fill); resize(n) is resize(n, {}), whose fill is node()
ArrayResize(t, n, fill) ==
    /\ pc = "idle"
    /\ tab' = [tab EXCEPT ![t].data = array_resize(tab[t].data, n, fill)]
    /\ last' = [NoCall EXCEPT !.op = "array_resize", !.t = t, !.index = n, !.fill = fill,
                              !.held = tab[t]]
    /\ UNCHANGED << policy, alloc, ref, pc, rsv, faults >>

\* array::swap(other) of two distinct buffers. With propagating or equal
\* allocators data_ and size_ are exchanged. Otherwise first_data and then
\* second_data are both constructed from std::move_if_noexcept(other.data_[i]):
\* when the node's move constructor is noexcept (moves) the first pass leaves
\* other.data_[i] cleared and the second pass moves the cleared nodes; else
\* both passes copy. first_data becomes data_, second_data other.data_.
array_swap(case, moves, own, other) ==
    IF case \in {"propagate", "equal"}
    THEN [own |-> other, other |-> own]
    ELSE [own |-> [i \in 1 .. Len(other) |-> node_copy(other[i])],
          other |-> [i \in 1 .. Len(other) |->
                        node_copy(IF moves THEN node_clear(other[i]) ELSE other[i])]]

\* t.swap(o); swap(*this) returns at once
ArraySwap(t, o, moves) ==
    /\ pc = "idle"
    /\ IF t = o
       THEN tab' = tab
       ELSE LET s == array_swap(alloc, moves, tab[t].data, tab[o].data)
            IN  tab' = [tab EXCEPT ![t].data = s.own, ![o].data = s.other]
    /\ last' = [NoCall EXCEPT !.op = "array_swap", !.t = t, !.arg = o,
                              !.held = tab[t], !.other = tab[o]]
    /\ UNCHANGED << policy, alloc, ref, pc, rsv, faults >>

\* buffer 1 is built by array(size, default_value), buffer 2 by array(size);
\* the allocator type is any of the three cases
ArrayInit ==
    /\ policy = "power_of_two"
    /\ alloc \in AllocatorCases
    /\ \E c1 \in 0 .. MaxInitCap, c2 \in 0 .. MaxInitCap, e \in ArrayElements :
          tab = [t \in Tables |->
                    [data |-> IF t = 1 THEN array_fill(c1, e) ELSE array_new(c2),
                     size |-> 0, lf |-> kDefaultLoadFactor]]
    /\ ref = [t \in Tables |-> EmptyRef]
    /\ pc = "idle"
    /\ rsv = NoReserve
    /\ last = NoCall
    /\ faults = 0

\* resize alone, on buffer 1
NextResize ==
    \E n \in 0 .. MaxArraySize, fill \in ArrayElements : ArrayResize(1, n, fill)

ResizeSpec == ArrayInit /\ [][NextResize]_vars

\* swaps of the two buffers, either way round and with themselves, between
\* resizes of buffer 1
NextSwap ==
    \/ \E n \in 0 .. MaxInitCap, fill \in ArrayElements : ArrayResize(1, n, fill)
    \/ \E t \in Tables, o \in Tables, moves \in BOOLEAN : ArraySwap(t, o, moves)

SwapSpec == ArrayInit /\ [][NextSwap]_vars

\* ------------------------------------------------------------ the buffer alone, failing
\* The calls below are made with an allocator or an element type that throws
\* at step f of the call, steps being counted from 0 in the order the code
\* takes them: each allocate and each construct is one step. The element's
\* move constructor is not noexcept, so std::move_if_noexcept copies.
\* Each operator tells whether the call has a step f at all (fails), the
\* buffers whose storage is deallocated while data_ still points to it (freed)
\* and the number of new buffers never destroyed and released (leaked).

\* array::operator=(const array &other), this # &other: the own buffer is
\* destroyed and deallocated, then come allocate (step 0) and the constructs
\* from data_[i] (steps 1 .. other.size_); the catch block releases new_data.
\* data_ and size_ are assigned after the loop only. reads tells whether a
\* construct has read data_[i], a slot of the freed buffer, before the throw.
array_copy_assign_throwing(own, other, f) ==
    [fails |-> f <= Len(other),
     freed |-> Len(own) > 0,
     leaked |-> 0,
     reads |-> f >= 1]

\* array::resize(new_size, default_value): allocate is step 0, the
\* constructs of the kept elements are steps 1 .. min(size_, new_size) and
\* have a catch block that releases new_data, the constructs from
\* default_value are the steps after them and have none
array_resize_throwing(d, new_size, f) ==
    [fails |-> Len(d) # new_size /\ f <= new_size,
     freed |-> FALSE,
     leaked |-> IF f > Min(Len(d), new_size) THEN 1 ELSE 0,
     reads |-> FALSE]

\* array::swap(other) with unequal allocators that do not propagate: allocate
\* of first_data is step 0, its constructs are steps 1 .. other.size_ (the
\* catch block releases first_data), allocate of second_data is step
\* other.size_ + 1 and is outside any try block, its constructs are the steps
\* after it (the catch block releases both). The other paths have no step
\* that can throw.
array_swap_throwing(case, own, other, f) ==
    [fails |-> case = "unequal" /\ f <= 2 * Len(other) + 1,
     freed |-> FALSE,
     leaked |-> IF f = Len(other) + 1 THEN 1 ELSE 0,
     reads |-> FALSE]

\* t = o on two buffers fails at step f. Reading the freed buffer is
\* undefined: the run is killed there or goes on to the throw; either way
\* buffer t is left pointing to freed storage when it had any
ArrayCopyAssignThrows(t, o, f) ==
    /\ pc = "idle"
    /\ faults < MaxFaults
    /\ t # o
    /\ LET r == array_copy_assign_throwing(tab[t].data, tab[o].data, f)
       IN  /\ r.fails
           /\ \E out \in IF r.reads THEN { "thrown", "crashed" } ELSE { "thrown" } :
                 /\ pc' = IF out = "crashed" THEN "crashed"
                          ELSE IF r.freed \/ r.reads THEN "undefined" ELSE pc
                 /\ last' = [NoCall EXCEPT !.op = "array_copy_assign", !.t = t, !.arg = o,
                                           !.index = f, !.out = out,
                                           !.held = tab[t], !.other = tab[o],
                                           !.freed = IF r.freed THEN {t} ELSE {},
                                           !.leaked = r.leaked]
    /\ faults' = faults + 1
    /\ UNCHANGED << policy, alloc, tab, ref, rsv >>

\* t.resize(n, fill) fails at step f
ArrayResizeThrows(t, n, fill, f) ==
    /\ pc = "idle"
    /\ faults < MaxFaults
    /\ LET r == array_resize_throwing(tab[t].data, n, f)
       IN  /\ r.fails
           /\ last' = [NoCall EXCEPT !.op = "array_resize", !.t = t, !.index = f,
                                     !.fill = fill, !.out = "thrown",
                                     !.held = tab[t], !.leaked = r.leaked]
    /\ faults' = faults + 1
    /\ UNCHANGED << policy, alloc, tab, ref, pc, rsv >>

\* t.swap(o) fails at step f
ArraySwapThrows(t, o, f) ==
    /\ pc = "idle"
    /\ faults < MaxFaults
    /\ t # o
    /\ LET r == array_swap_throwing(alloc, tab[t].data, tab[o].data, f)
       IN  /\ r.fails
           /\ last' = [NoCall EXCEPT !.op = "array_swap", !.t = t, !.arg = o,
                                     !.index = f, !.out = "thrown",
                                     !.held = tab[t], !.other = tab[o],
                                     !.leaked = r.leaked]
    /\ faults' = faults + 1
    /\ UNCHANGED << policy, alloc, tab, ref, pc, rsv >>

\* the calls that fail, between resizes and swaps that succeed
NextArrayThrowing ==
    \/ \E n \in 0 .. MaxInitCap, fill \in ArrayElements : ArrayResize(1, n, fill)
    \/ \E t \in Tables, o \in Tables : ArraySwap(t, o, FALSE)
    \/ \E t \in Tables, o \in Tables, f \in FailPoints : ArrayCopyAssignThrows(t, o, f)
    \/ \E n \in 0 .. MaxInitCap, fill \in ArrayElements, f \in FailPoints :
          ArrayResizeThrows(1, n, fill, f)
    \/ \E t \in Tables, o \in Tables, f \in FailPoints : ArraySwapThrows(t, o, f)

ArrayThrowingSpec == ArrayInit /\ [][NextArrayThrowing]_vars

\* ------------------------------------------------------------ erase(iterator)
\* faulty variant: the iterator is advanced whether or not the slot was refilled
erase_iterator_always_advances(tb, position) ==
    IF position = end(tb.data)
    THEN [tb |-> tb, pos |-> end(tb.data), reads |-> {}]
    ELSE LET r == erase_(tb, At(tb.data, position).key)
             n == go_next(r.tb.data, position, {position})
         IN  [tb |-> r.tb, pos |-> n.pos, reads |-> n.reads]

\* erase(iterator position): _erase of the key position refers to, then
\* ++position when the slot is empty; the table afterwards, the position
\* returned and the slots read
erase_iterator(tb, position) ==
    IF position = end(tb.data)
    THEN [tb |-> tb, pos |-> end(tb.data), reads |-> {}]
    ELSE LET r == erase_(tb, At(tb.data, position).key)
         IN  IF At(r.tb.data, position).empty
             THEN LET n == go_next(r.tb.data, position, {position})
                  IN  [tb |-> r.tb, pos |-> n.pos, reads |-> n.reads]
             ELSE [tb |-> r.tb, pos |-> position, reads |-> {position}]

\* erase(it) for an iterator to an occupied slot, as find or a traversal
\* yields it, or for end()
EraseIterator(t, position) ==
    /\ pc = "idle"
    /\ position \in Occupied(tab[t].data) \cup { end(tab[t].data) }
    /\ LET r == erase_iterator(tab[t], position)
           key == IF position = end(tab[t].data) THEN 0 ELSE At(tab[t].data, position).key
       IN  /\ tab' = [tab EXCEPT ![t] = r.tb]
           /\ ref' = IF key = 0 THEN ref ELSE [ref EXCEPT ![t][key] = 0]
           /\ last' = [NoCall EXCEPT !.op = "erase_iterator", !.t = t, !.key = key,
                                     !.index = position, !.ret = r.pos, !.reads = r.reads,
                                     !.cap = Len(tab[t].data), !.held = tab[t]]
    /\ UNCHANGED << policy, alloc, pc, rsv, faults >>

\* inserts and erases through iterators
NextEraseIterator ==
    \/ \E k \in Keys, v \in Vals : Insert(1, k, v)
    \/ \E position \in 0 .. SizeMod - 1 : EraseIterator(1, position)

EraseIteratorSpec == Init /\ [][NextEraseIterator]_vars

\* ------------------------------------------------------------ the node alone
\* A node is empty_ (empty), hash_ (hash) and the storage value_, which holds
\* a live value when key or val is not 0. The operators below take the nodes
\* as they are when the call is made; same tells that other is *this.

\* node::set_data(hash, args...) on the node n
set_data(n, hash, k, v) ==
    LET c == IF ~n.empty THEN node_clear(n) ELSE n
    IN  [c EXCEPT !.key = k, !.val = v, !.empty = FALSE, !.hash = hash]

\* node(node &&other): the new node and what is left of other
node_move(other) == [self |-> node_copy(other), other |-> node_clear(other)]

\* node::operator=(const node &other): clear(), then the value is
\* copy-constructed when other is not empty, then hash_ and empty_ are copied
node_copy_assign(self, other, same) ==
    LET c == node_clear(self)
        o == IF same THEN c ELSE other
    IN  [empty |-> o.empty, hash |-> o.hash,
         key |-> IF ~o.empty THEN o.key ELSE c.key,
         val |-> IF ~o.empty THEN o.val ELSE c.val]

\* node::operator=(node &&other): the same with a moved value, then other.clear()
node_move_assign(self, other, same) ==
    LET a == node_copy_assign(self, other, same)
    IN  IF same THEN [self |-> node_clear(a), other |-> node_clear(a)]
        ELSE [self |-> a, other |-> node_clear(other)]

\* faulty variant: no temporary, other is assigned from the new *this
node_swap_no_temp(self, other, same) ==
    LET a == node_copy_assign(self, other, same)
        b == node_copy_assign(IF same THEN a ELSE other, a, same)
    IN  IF same THEN [self |-> b, other |-> b] ELSE [self |-> a, other |-> b]

\* node::swap(other): node temp = *this; *this = other; other = temp;
node_swap(self, other, same) ==
    LET temp == node_copy(self)
        a == node_copy_assign(self, other, same)
        b == node_copy_assign(IF same THEN a ELSE other, temp, FALSE)
    IN  IF same THEN [self |-> b, other |-> b] ELSE [self |-> a, other |-> b]

\* the nodes of the runs of the node alone are the slots of data_ of table 1
Slots == 0 .. Len(tab[1].data) - 1

NodeSetData(i, k, v) ==
    /\ pc = "idle"
    /\ i \in Slots
    /\ tab' = [tab EXCEPT ![1].data = Put(@, i, set_data(At(@, i), Hash(k), k, v))]
    /\ last' = [NoCall EXCEPT !.op = "node_set_data", !.index = i, !.key = k, !.arg = v]
    /\ UNCHANGED << policy, alloc, ref, pc, rsv, faults >>

NodeClear(i) ==
    /\ pc = "idle"
    /\ i \in Slots
    /\ tab' = [tab EXCEPT ![1].data = Put(@, i, node_clear(At(@, i)))]
    /\ last' = [NoCall EXCEPT !.op = "node_clear", !.index = i]
    /\ UNCHANGED << policy, alloc, ref, pc, rsv, faults >>

\* the node of slot i is constructed anew by node(const node &) from slot j
NodeCopyConstruct(i, j) ==
    /\ pc = "idle"
    /\ i \in Slots /\ j \in Slots /\ i # j
    /\ tab' = [tab EXCEPT ![1].data = Put(@, i, node_copy(At(@, j)))]
    /\ last' = [NoCall EXCEPT !.op = "node_copy_construct", !.index = i, !.arg = j]
    /\ UNCHANGED << policy, alloc, ref, pc, rsv, faults >>

\* the node of slot i is constructed anew by node(node &&) from slot j
NodeMoveConstruct(i, j) ==
    /\ pc = "idle"
    /\ i \in Slots /\ j \in Slots /\ i # j
    /\ LET m == node_move(At(tab[1].data, j))
       IN  tab' = [tab EXCEPT ![1].data = Put(Put(@, i, m.self), j, m.other)]
    /\ last' = [NoCall EXCEPT !.op = "node_move_construct", !.index = i, !.arg = j]
    /\ UNCHANGED << policy, alloc, ref, pc, rsv, faults >>

\* slot i = slot j
NodeCopyAssign(i, j) ==
    /\ pc = "idle"
    /\ i \in Slots /\ j \in Slots
    /\ tab' = [tab EXCEPT ![1].data =
                  Put(@, i, node_copy_assign(At(@, i), At(@, j), i = j))]
    /\ last' = [NoCall EXCEPT !.op = "node_copy_assign", !.index = i, !.arg = j]
    /\ UNCHANGED << policy, alloc, ref, pc, rsv, faults >>

\* slot i = std::move(slot j)
NodeMoveAssign(i, j) ==
    /\ pc = "idle"
    /\ i \in Slots /\ j \in Slots
    /\ LET m == node_move_assign(At(tab[1].data, i), At(tab[1].data, j), i = j)
       IN  tab' = [tab EXCEPT ![1].data = Put(Put(@, j, m.other), i, m.self)]
    /\ last' = [NoCall EXCEPT !.op = "node_move_assign", !.index = i, !.arg = j]
    /\ UNCHANGED << policy, alloc, ref, pc, rsv, faults >>

\* slot i .swap(slot j)
NodeSwap(i, j) ==
    /\ pc = "idle"
    /\ i \in Slots /\ j \in Slots
    /\ LET m == node_swap(At(tab[1].data, i), At(tab[1].data, j), i = j)
       IN  tab' = [tab EXCEPT ![1].data = Put(Put(@, j, m.other), i, m.self)]
    /\ last' = [NoCall EXCEPT !.op = "node_swap", !.index = i, !.arg = j,
                              !.held = tab[1]]
    /\ UNCHANGED << policy, alloc, ref, pc, rsv, faults >>

\* every call on the nodes of a buffer of default-constructed nodes
NextNode ==
    \/ \E i \in 0 .. MaxInitCap, k \in KeysTwo, v \in Vals : NodeSetData(i, k, v)
    \/ \E i \in 0 .. MaxInitCap : NodeClear(i)
    \/ \E i \in 0 .. MaxInitCap, j \in 0 .. MaxInitCap : NodeCopyConstruct(i, j)
    \/ \E i \in 0 .. MaxInitCap, j \in 0 .. MaxInitCap : NodeMoveConstruct(i, j)
    \/ \E i \in 0 .. MaxInitCap, j \in 0 .. MaxInitCap : NodeCopyAssign(i, j)
    \/ \E i \in 0 .. MaxInitCap, j \in 0 .. MaxInitCap : NodeMoveAssign(i, j)
    \/ \E i \in 0 .. MaxInitCap, j \in 0 .. MaxInitCap : NodeSwap(i, j)

NodeSpec == Init /\ [][NextNode]_vars

\* ------------------------------------------------------------ erase(first, last)
\* for (; begin != end; ++begin) erase(begin);
\* erase(begin) works on a copy of begin and its result is dropped, so begin
\* is advanced from the slot it refers to whether or not the backward shift
\* has refilled that slot. At begin = end() of the table erase returns at
\* once and ++begin reads the slot after last_ (past).
RECURSIVE erase_range_loop(_, _, _, _)
erase_range_loop(tb, it, last_, reads) ==
    IF it = last_ THEN [tb |-> tb, reads |-> reads, past |-> FALSE]
    ELSE IF it = end(tb.data)
    THEN [tb |-> tb, reads |-> reads \cup {end(tb.data) + 1}, past |-> TRUE]
    ELSE LET r == erase_iterator(tb, it)
             n == go_next(r.tb.data, it, reads \cup r.reads)
         IN  erase_range_loop(r.tb, n.pos, last_, n.reads)

erase_range(tb, first, last_) == erase_range_loop(tb, first, last_, {})

\* erase(first, last) for a range of the table: first and last are iterators
\* to occupied slots or end(), first not after last. The function has no
\* return statement; flowing off its end is undefined, as is the read past
\* last_: the call is killed, or returns with the table the loop has left
EraseRange(t, first, last_) ==
    /\ pc = "idle"
    /\ first \in Occupied(tab[t].data) \cup { end(tab[t].data) }
    /\ last_ \in Occupied(tab[t].data) \cup { end(tab[t].data) }
    /\ first <= last_
    /\ LET r == erase_range(tab[t], first, last_)
       IN  \E out \in { "returned", "crashed" } :
              /\ tab' = IF out = "crashed" THEN tab ELSE [tab EXCEPT ![t] = r.tb]
              /\ ref' = IF out = "crashed" THEN ref
                        ELSE [ref EXCEPT ![t] =
                                 [k \in Keys |-> IF contains(r.tb, k) THEN ref[t][k] ELSE 0]]
              /\ pc' = IF out = "crashed" THEN "crashed" ELSE pc
              /\ last' = [NoCall EXCEPT !.op = "erase_range", !.t = t, !.index = first,
                                        !.arg = last_, !.out = out, !.reads = r.reads,
                                        !.cap = Len(tab[t].data), !.held = tab[t]]
    /\ UNCHANGED << policy, alloc, rsv, faults >>

\* inserts and erases of iterator ranges
NextEraseRange ==
    \/ \E k \in Keys, v \in Vals : Insert(1, k, v)
    \/ \E first \in 0 .. SizeMod - 1, last_ \in 0 .. SizeMod - 1 : EraseRange(1, first, last_)

EraseRangeSpec == Init /\ [][NextEraseRange]_vars

\* ------------------------------------------------------------ a table filled up
\* capacities hash_table(size_type capacity) is called with here: the last
\* two below 2^(FloatBits + 1); the conversion to float keeps the even one
\* and rounds the odd one up
FullCapacities == {2 ^ (FloatBits + 1) - 2, 2 ^ (FloatBits + 1) - 1}
\* one key more than the larger capacity holds
FullKeys == 1 .. 2 ^ (FloatBits + 1)

FullInit ==
    /\ policy \in Policies
    /\ \E c \in FullCapacities :
          tab = [t \in Tables |->
                    [data |-> array_new(IF t = 1 THEN c ELSE 0), size |-> 0,
                     lf |-> kDefaultLoadFactor]]
    /\ ref = [t \in Tables |-> [k \in FullKeys |-> 0]]
    /\ pc = "idle"
    /\ rsv = NoReserve
    /\ last = NoCall
    /\ faults = 0
    /\ alloc = "equal"

NextFull ==
    \/ \E k \in FullKeys : Insert(1, k, 1)
    \/ \E x \in Thresholds : MaxLoadFactor(1, x)

FullSpec == FullInit /\ [][NextFull]_vars

\* ------------------------------------------------------------ observations
\* what find(k) yields: the mapped value, 0 for end()
Lookup(tb, k) == IF find(tb, k) = Len(tb.data) THEN 0 ELSE At(tb.data, find(tb, k)).val

\* the full scan of an iteration from begin() to end(): occupied slots in order
RECURSIVE Scan(_, _)
Scan(d, i) ==
    IF i = Len(d) THEN << >>
    ELSE IF At(d, i).empty THEN Scan(d, i + 1)
    ELSE << [key |-> At(d, i).key, val |-> At(d, i).val] >> \o Scan(d, i + 1)

Entries(tb) == { Scan(tb.data, 0)[i] : i \in 1 .. Len(Scan(tb.data, 0)) }

load_factor_within(tb) == tb.size * LfDen <= max_load_factor(tb) * Len(tb.data)

\* the keys a table holds
KeySet(tb) == { At(tb.data, i).key : i \in Occupied(tb.data) }

\* the least nonzero capacity a growth policy returns
FirstNonzeroCapacity(pol) ==
    LET nonzero == { growth_policy_function_(pol, c) : c \in 0 .. SizeMod - 1 } \ {0}
    IN  CHOOSE n \in nonzero : \A m \in nonzero : n <= m

\* ------------------------------------------------------------ claims

C2_SizeEqualsScan ==
    \A t \in Tables : size(tab[t]) = Cardinality(Occupied(tab[t].data))

C4_LoadFactorAfterInsert ==
    (last.op = "insert" /\ ~last.found) => load_factor_within(tab[last.t])

\* C5: re-inserting a present key only replaces the value stored for it:
\* size, capacity and every other slot are unchanged and the entry stays in
\* its slot.
C5_OverwriteOnlyReplacesValue ==
    [][ \A t \in Tables :
          (pc = "idle" /\ pc' = "idle" /\ last'.op = "insert" /\ last'.t = t /\ contains(tab[t], last'.key))
          => /\ last'.found
             /\ tab'[t].size = tab[t].size
             /\ Len(tab'[t].data) = Len(tab[t].data)
             /\ tab'[t].lf = tab[t].lf
             /\ find(tab'[t], last'.key) = find(tab[t], last'.key)
             /\ last'.index = find(tab[t], last'.key)
             /\ \A i \in 0 .. Len(tab[t].data) - 1 :
                   IF i = last'.index
                   THEN At(tab'[t].data, i) = [At(tab[t].data, i) EXCEPT !.val = last'.arg]
                   ELSE At(tab'[t].data, i) = At(tab[t].data, i)
      ]_vars

C5_Witness ==
    /\ last.op = "insert" /\ last.found
    /\ tab[1].size >= 2
    /\ last.index # hash_to_index(tab[1].data, Hash(last.key))

C8_EraseAbsentIsNoOp ==
    [][ \A t \in Tables :
          (pc = "idle" /\ pc' = "idle" /\ last'.op = "erase" /\ last'.t = t /\ ~contains(tab[t], last'.key))
          => /\ last'.ret = 0
             /\ tab'[t] = tab[t]
      ]_vars

C8_Witness ==
    /\ last.op = "erase" /\ last.ret = 0
    /\ tab[1].size >= 2
    /\ ~At(tab[1].data, hash_to_index(tab[1].data, Hash(last.key))).empty

\* C9: after reserve(target) or rehash(target) returns, capacity is strictly
\* greater than target.
C9_CapacityExceedsTarget ==
    (last.op = "reserve" /\ pc = "idle") => Len(tab[last.t].data) > last.arg

\* C10: reserve(target) and rehash(target) terminate for every target and
\* every table, under both growth policies.
C10_ReserveTerminates ==
    (pc = "next_capacity") ~> (pc = "idle")

\* C11: try_emplace(k, v) inserts only when k is absent: for a present k the
\* stored mapped value and size() are unchanged and the existing entry is
\* returned; for an absent k a new entry with value v is added.
C11_TryEmplaceKeepsPresent ==
    [][ \A t \in Tables :
          (pc = "idle" /\ pc' = "idle" /\ last'.op = "try_emplace" /\ last'.t = t)
          => IF contains(tab[t], last'.key)
             THEN /\ Lookup(tab'[t], last'.key) = Lookup(tab[t], last'.key)
                  /\ size(tab'[t]) = size(tab[t])
                  /\ last'.index = find(tab[t], last'.key)
             ELSE /\ Lookup(tab'[t], last'.key) = last'.arg
                  /\ size(tab'[t]) = size(tab[t]) + 1
      ]_vars

\* C12: at(k) for a key that is not in the map reports a key-not-found
\* failure: it returns no value reference, reads no slot at or beyond the end
\* position and leaves the map unchanged; for a present key it returns the
\* key's mapped value.
C12_AtReportsMissingKey ==
    [][ \A t \in Tables :
          (pc = "idle" /\ last'.op = "at" /\ last'.t = t /\ last' # last)
          => /\ tab'[t] = tab[t]
             /\ IF contains(tab[t], last'.key)
                THEN /\ last'.out = "returned"
                     /\ last'.ret = Lookup(tab[t], last'.key)
                ELSE /\ last'.out = "key_not_found"
                     /\ last'.index < Len(tab[t].data)
      ]_vars

\* C19: a forward traversal from begin() to end() yields every occupied slot
\* exactly once, in increasing slot index, never an empty slot, and exactly
\* size() entries; a traversal by decrements yields the same slots in the
\* reverse order.
C19_TraversalYieldsOccupiedSlots ==
    LET d == tab[last.t].data
        n == Len(last.seq)
    IN  /\ (last.op = "iterate")
           => /\ last.out = "returned"
              /\ \A i, j \in 1 .. n : i < j => last.seq[i] < last.seq[j]
              /\ { last.seq[i] : i \in 1 .. n } = Occupied(d)
              /\ n = size(tab[last.t])
        /\ (last.op = "iterate_prior")
           => /\ \A i, j \in 1 .. n : i < j => last.seq[i] > last.seq[j]
              /\ { last.seq[i] : i \in 1 .. n } = Occupied(d)
              /\ n = size(tab[last.t])

\* C20: no traversal dereferences the end position or any position outside
\* [0, capacity): begin(), cbegin(), increments and decrements, on every
\* table, a table of capacity 0 and a table whose slots are all empty
\* included.
C20_TraversalReadsInsideBuffer ==
    (last.op \in {"iterate", "iterate_prior"})
    => \A i \in last.reads : i >= 0 /\ i < Len(tab[last.t].data)

\* C16: power_of_two_growth_policy maps every c to max(c, 1) * 2, taken
\* modulo 2^w: 0 goes to 2 and the result is strictly greater than c except
\* where the product wraps around at the top of the range.
C16_PowerOfTwoDoublesAtLeastOne ==
    (last.op = "power_of_two_growth_policy")
    => /\ last.ret = (Max(last.arg, 1) * 2) % SizeMod
       /\ (Max(last.arg, 1) * 2 < SizeMod) => last.ret > last.arg

\* C17: prime_growth_policy maps c to the smallest entry of PRIMES that is
\* strictly greater than c, and returns c unchanged when no entry is greater.
C17_PrimeReturnsSmallestGreater ==
    (last.op = "prime_growth_policy")
    => LET greater == { PrimesInRange[i] : i \in 1 .. Len(PrimesInRange) }
                      \cap ((last.arg + 1) .. (SizeMod - 1))
       IN  IF greater = {} THEN last.ret = last.arg
           ELSE /\ last.ret \in greater
                /\ \A p \in greater : last.ret <= p

C17_Witness ==
    /\ last.op = "prime_growth_policy"
    /\ last.arg \in { PrimesInRange[i] : i \in 1 .. Len(PrimesInRange) }
    /\ last.ret > last.arg
    /\ last.ret # PrimesInRange[Len(PrimesInRange)]

C13_EqualsIffSameKeySets ==
    (last.op \in {"operator==", "operator!="})
    => LET a == tab[last.t]
           b == tab[last.arg]
           same == KeySet(a) = KeySet(b)
       IN  /\ last.out = "returned"
           /\ last.found = IF last.op = "operator==" THEN same ELSE ~same
           /\ same <=> (size(a) = size(b) /\ \A k \in KeySet(b) : contains(a, k))
           /\ operator_eq(a, b).ret = operator_eq(b, a).ret
           /\ operator_ne(a, b).ret = ~operator_eq(a, b).ret

\* C14: copy construction and copy assignment each yield an independent deep
\* clone: afterwards the destination holds exactly the source's entries (same
\* keys, values and size), the source is unchanged, and a later insert or
\* erase on one table does not change the other.
C14_CopyIsDeepClone ==
    [][ \A t, o \in Tables :
          /\ (pc = "idle" /\ t # o /\ last'.op \in {"copy_construct", "copy_assign"}
                 /\ last'.t = t /\ last'.arg = o)
             => /\ last'.out = "returned"
                /\ Entries(tab'[t]) = Entries(tab[o])
                /\ Len(Scan(tab'[t].data, 0)) = Len(Scan(tab[o].data, 0))
                /\ size(tab'[t]) = size(tab[o])
                /\ \A k \in Keys : Lookup(tab'[t], k) = Lookup(tab[o], k)
                /\ tab'[o] = tab[o]
          /\ (pc = "idle" /\ t # o /\ last'.op \in {"insert", "erase"} /\ last'.t = t)
             => tab'[o] = tab[o]
      ]_vars

\* C15: move construction and move assignment transfer ownership: afterwards
\* the destination holds exactly the entries the source held, and the source
\* is a valid empty table (size() = 0, no key found) on which a later insert
\* succeeds.
C15_MoveTransfersOwnership ==
    /\ (last.op \in {"move_construct", "move_assign"})
       => LET dst == tab[last.t]
              src == tab[last.arg]
          IN  /\ dst.data = last.held.data
              /\ Entries(dst) = Entries(last.held)
              /\ size(dst) = size(last.held)
              /\ \A k \in Keys : Lookup(dst, k) = Lookup(last.held, k)
              /\ size(src) = 0
              /\ Entries(src) = {}
              /\ \A k \in Keys :
                    /\ ~contains(src, k)
                    /\ find(src, k) = end(src.data)
                    /\ \A v \in Vals :
                          LET r == insert_(policy, src, k, v)
                          IN  /\ ~r.hangs /\ ~r.found
                              /\ size(r.tb) = 1
                              /\ Lookup(r.tb, k) = v
    /\ (last.op = "insert" /\ last.cap = 0 /\ pc = "idle")
       => /\ ~last.found
          /\ size(tab[last.t]) = 1
          /\ Lookup(tab[last.t], last.key) = last.arg

C15_Witness ==
    /\ last.op = "insert" /\ last.t = 1 /\ last.cap = 0
    /\ size(tab[1]) = 1
    /\ size(tab[2]) >= 2
    /\ Lookup(tab[2], last.key) # 0
    /\ Lookup(tab[2], last.key) # last.arg

C22_FailedInsertLeavesSlotEmpty ==
    /\ \A t \in Tables : \A i \in 0 .. Len(tab[t].data) - 1 :
          LET n == At(tab[t].data, i)
          IN  IF n.empty THEN n = EmptyNode ELSE n.key # 0 /\ n.val # 0
    /\ (last.op = "insert_failed")
       => /\ size(tab[last.t]) <= last.ret
          /\ last.found => At(tab[last.t].data, last.index) = EmptyNode
    /\ (last.op = "insert" /\ pc = "idle")
       => /\ \E i \in Occupied(tab[last.t].data) :
                At(tab[last.t].data, i) = node_set_data(Hash(last.key), last.key, last.arg)
          /\ size(tab[last.t]) >= 1

C22_Witness ==
    /\ last.op = "insert_failed" /\ last.found
    /\ At(tab[1].data, last.index).empty
    /\ size(tab[1]) >= 2
    /\ \E i \in Occupied(tab[1].data) : distance_to_ideal_bucket(tab[1].data, i) > 0

\* C23: when a rehash fails, while allocating the replacement buffer or while
\* moving an entry into it, the live table is as it was before the call:
\* same capacity, same size(), every entry in its slot with its value.
C23_FailedRehashLeavesTableUnchanged ==
    (last.op = "rehash_failed") => tab[last.t] = last.held

\* C24: when buffer copy-assignment, resize or swap fails at an allocation or
\* an element construction, no new buffer is left unreleased, and each
\* original buffer is unchanged with its storage still owned and not freed.
C24_BufferCallsAllOrNothing ==
    (last.op \in {"array_copy_assign", "array_resize", "array_swap"}
        /\ last.out \in {"thrown", "crashed"})
    => /\ last.out = "thrown"
       /\ last.leaked = 0
       /\ last.freed = {}
       /\ tab[last.t] = last.held
       /\ last.op # "array_resize" => tab[last.arg] = last.other

C26_BackwardShiftMovesMaximalRun ==
    [][ \A t \in Tables :
          (pc = "idle" /\ pc' = "idle" /\ last'.op = "erase" /\ last'.t = t /\ last'.found)
          => LET d == tab[t].data
                 e == tab'[t].data
                 L == Len(d)
                 i == last'.index
                 slot(j) == (i + j) % L
                 movable(j) == ~At(d, slot(j)).empty /\ distance_to_ideal_bucket(d, slot(j)) > 0
                 m == CHOOSE n \in 0 .. L - 1 :
                         /\ \A j \in 1 .. n : movable(j)
                         /\ n = L - 1 \/ ~movable(n + 1)
             IN  /\ At(d, i).key = last'.key
                 /\ Len(e) = L
                 /\ \A j \in 0 .. m - 1 :
                       /\ At(e, slot(j)) = At(d, slot(j + 1))
                       /\ distance_to_ideal_bucket(e, slot(j))
                             = distance_to_ideal_bucket(d, slot(j + 1)) - 1
                 /\ At(e, slot(m)) = EmptyNode
                 /\ \A j \in m + 1 .. L - 1 : At(e, slot(j)) = At(d, slot(j))
      ]_vars

\* an erase has just shifted two entries back, the second across the end of
\* the buffer: the erased slot and the slot after it, both vacated during the
\* call, are occupied again
C26_Witness ==
    /\ last.op = "erase" /\ last.found /\ pc = "idle"
    /\ LET d == tab[1].data
           i == last.index
       IN  /\ Len(d) >= 4
           /\ ~At(d, i).empty
           /\ ~At(d, next_index(d, i)).empty
           /\ At(d, next_index(d, next_index(d, i))).empty
           /\ next_index(d, i) = 0

C28_SwapExchangesBuffers ==
    (last.op = "array_swap" /\ last.out = "returned" /\ last.t # last.arg)
    => /\ tab[last.t].data = last.other.data
       /\ tab[last.arg].data = last.held.data

\* C29: after resize(n, fill) the buffer has size n, its first
\* min(old_size, n) elements are the old elements in their old order and
\* every element at an index >= old_size equals fill; resize(n) with n equal
\* to the current size changes nothing.
C29_ResizeKeepsPrefixAndFills ==
    (last.op = "array_resize" /\ last.out = "returned")
    => LET old == last.held.data
           d == tab[last.t].data
           n == last.index
       IN  /\ Len(d) = n
           /\ \A i \in 1 .. Min(Len(old), n) : d[i] = old[i]
           /\ \A i \in Len(old) + 1 .. n : d[i] = last.fill
           /\ (n = Len(old)) => tab[last.t] = last.held

\* a resize has just cut a buffer of three elements, not all alike, to two
C29_Witness ==
    /\ last.op = "array_resize" /\ last.out = "returned"
    /\ Len(last.held.data) = 3 /\ last.index = 2
    /\ last.held.data[1] # last.held.data[2]
    /\ last.held.data[2] # last.held.data[3]
    /\ Len(tab[1].data) = 2

\* C30: in every state reached by set_data, clear, copy and move
\* construction, copy and move assignment and swap, every node holds a live
\* value iff it is not empty and an empty node has cached hash 0; a node that
\* has just been moved from is empty; and swap has exchanged the two nodes.
C30_NodeLiveIffOccupied ==
    /\ \A i \in 0 .. Len(tab[1].data) - 1 :
          LET n == At(tab[1].data, i)
          IN  /\ (n.key # 0 \/ n.val # 0) <=> ~n.empty
              /\ n.empty => n.hash = kDefaultHash
              /\ ~n.empty => n.key # 0 /\ n.val # 0 /\ n.hash = Hash(n.key)
    /\ (last.op \in {"node_move_construct", "node_move_assign"})
       => At(tab[1].data, last.arg) = EmptyNode
    /\ (last.op = "node_set_data")
       => At(tab[1].data, last.index) = node_set_data(Hash(last.key), last.key, last.arg)
    /\ (last.op = "node_clear") => At(tab[1].data, last.index) = EmptyNode
    /\ (last.op = "node_swap")
       => /\ At(tab[1].data, last.index) = At(last.held.data, last.arg)
          /\ At(tab[1].data, last.arg) = At(last.held.data, last.index)

\* an occupied node has just been move-assigned to another node
C30_Witness ==
    /\ last.op = "node_move_assign" /\ last.index # last.arg
    /\ ~At(tab[1].data, last.index).empty
    /\ At(tab[1].data, last.arg).empty

\* C31: a.swap(b) on two nodes exchanges value, cached hash and occupancy,
\* whether each node is empty or occupied: afterwards a is what b was and b
\* what a was, every other node is as before, and the values the nodes hold
\* are the same as before, each as often as before.
C31_NodeSwapExchanges ==
    (last.op = "node_swap")
    => LET old == last.held.data
           d == tab[1].data
           a == last.index
           b == last.arg
           times(s, n) == Cardinality({ i \in 1 .. Len(s) : s[i] = n })
       IN  /\ Len(d) = Len(old)
           /\ At(d, a).empty = At(old, b).empty /\ At(d, b).empty = At(old, a).empty
           /\ At(d, a).hash = At(old, b).hash /\ At(d, b).hash = At(old, a).hash
           /\ At(d, a).key = At(old, b).key /\ At(d, b).key = At(old, a).key
           /\ At(d, a).val = At(old, b).val /\ At(d, b).val = At(old, a).val
           /\ \A i \in 0 .. Len(d) - 1 : (i # a /\ i # b) => At(d, i) = At(old, i)
           /\ \A i \in 1 .. Len(old) : times(d, old[i]) = times(old, old[i])

\* an occupied node has just been swapped with an empty one
C31_Witness ==
    /\ last.op = "node_swap" /\ last.index # last.arg
    /\ At(last.held.data, last.index).empty /\ ~At(last.held.data, last.arg).empty
    /\ ~At(tab[1].data, last.index).empty /\ At(tab[1].data, last.arg).empty

\* C32: max_load_factor() is changed only by a call of max_load_factor(x):
\* every step of an insert (also one that grows the table), an erase, a
\* clear, a reserve or a rehash leaves the threshold of the table as it was.
C32_ThresholdChangedOnlyBySetter ==
    [][ \A t \in Tables :
          (last'.op # "max_load_factor")
          => max_load_factor(tab'[t]) = max_load_factor(tab[t])
      ]_vars

C34_InsertReturnsSlotAndFlag ==
    [][ \A t \in Tables :
          (pc = "idle" /\ pc' = "idle" /\ last'.op = "insert" /\ last'.t = t)
          => /\ last'.found <=> contains(tab[t], last'.key)
             /\ last'.index >= 0 /\ last'.index < Len(tab'[t].data)
             /\ At(tab'[t].data, last'.index)
                   = node_set_data(Hash(last'.key), last'.key, last'.arg)
             /\ find(tab'[t], last'.key) = last'.index
             /\ size(tab'[t]) = IF last'.found THEN size(tab[t]) ELSE size(tab[t]) + 1
      ]_vars

\* the insert of a new key has just wrapped around the buffer end and
\* displaced the entry of slot 0, which is now in slot 1
C34_Witness ==
    /\ last.op = "insert" /\ ~last.found /\ pc = "idle" /\ last.index = 0
    /\ LET d == tab[1].data
       IN  /\ At(d, 0).key = last.key
           /\ distance_to_ideal_bucket(d, 0) > 0
           /\ ~At(d, 1).empty
           /\ distance_to_ideal_bucket(d, 1) = 1
           /\ hash_to_index(d, At(d, 1).hash) = 0

\* C35: erase(first, last) returns having removed the entries of the slots in
\* [first, last) and no other entry; erase(begin(), end()) leaves the table
\* empty with size() = 0; and no slot past end() is read.
C35_EraseRangeRemovesRange ==
    (last.op = "erase_range")
    => LET before == last.held
           tb == tab[last.t]
           inrange == { i \in Occupied(before.data) : i >= last.index /\ i < last.arg }
           gone == { [key |-> At(before.data, i).key, val |-> At(before.data, i).val] :
                       i \in inrange }
       IN  /\ last.out = "returned"
           /\ Entries(tb) = Entries(before) \ gone
           /\ size(tb) = size(before) - Cardinality(inrange)
           /\ (inrange = Occupied(before.data)) => (size(tb) = 0 /\ Occupied(tb.data) = {})
           /\ \A i \in last.reads : i >= 0 /\ i <= Len(before.data)

\* C36: find, insert and erase terminate on every reachable table, a
\* completely full one (max load factor 1.0 and size() = capacity) included:
\* no call is ever inside a probe loop that does not end.
C36_ProbeLoopsTerminate == pc # "insertion_helper"

\* C37: no call other than clear() makes the capacity smaller, and clear()
\* makes it 0; erase and an insert that overwrites an existing key leave the
\* capacity as it was (find changes no state at all).
C37_CapacityNeverDecreases ==
    [][ \A t \in Tables :
          /\ Len(tab'[t].data) < Len(tab[t].data)
             => last'.op = "clear" /\ last'.t = t /\ Len(tab'[t].data) = 0
          /\ (last'.t = t /\ (last'.op = "erase" \/ (last'.op = "insert" /\ last'.found)))
             => Len(tab'[t].data) = Len(tab[t].data)
      ]_vars

\* an overwrite has just returned on a table that is at its rehash threshold
\* and whose buffer an earlier insert had grown: the capacity is the one the
\* call found
C37_Witness ==
    /\ last.op = "insert" /\ last.found /\ pc = "idle"
    /\ ~(tab[last.t].size < size_to_rehash(tab[last.t]))
    /\ Len(tab[last.t].data) = last.cap
    /\ Len(tab[last.t].data) > MaxInitCap

====
